---- MODULE Spec2Model ----
(***************************************************************************)
(* Keyed-instances example: a publisher that writes a moving square for    *)
(* one color and disposes the instance on exit (shapes_publisher.cxx), and *)
(* a curses subscriber that takes batches of notifications, renders valid  *)
(* samples on per-color rows and reports instance-state changes in a       *)
(* five-line log (shapes_subscriber.cxx).                                  *)
(*                                                                         *)
(* Text is modelled as a sequence of one-character strings, so that        *)
(* formatting, comparison and overwriting screen cells are computed.       *)
(***************************************************************************)
EXTENDS Integers, Sequences, FiniteSets, TLC

(* ------------------------------ text ---------------------------------- *)

PURPLE == <<"P", "U", "R", "P", "L", "E">>
BLUE == <<"B", "L", "U", "E">>
RED == <<"R", "E", "D">>
GREEN == <<"G", "R", "E", "E", "N">>
YELLOW == <<"Y", "E", "L", "L", "O", "W">>
CYAN == <<"C", "Y", "A", "N">>
MAGENTA == <<"M", "A", "G", "E", "N", "T", "A">>
ORANGE == <<"O", "R", "A", "N", "G", "E">>

\* A color name that is not in the palette (e.g. sent by another application).
BLACK == <<"B", "L", "A", "C", "K">>

TxtInstanceWithKey ==
    <<"I", "n", "s", "t", "a", "n", "c", "e", " ", "w", "i", "t", "h", " ",
      "k", "e", "y", " ">>

TxtHasDropped ==
    <<" ", "h", "a", "s", " ", "d", "r", "o", "p", "p", "e", "d", " ", "f", "r",
      "o", "m", " ", "t", "h", "e", " ", "d", "a", "t", "a", "b", "u", "s">>

TxtChangedTo == <<" ", "c", "h", "a", "n", "g", "e", "d", " ", "t", "o", " ">>

TxtX == <<"[", "x", ":", " ">>

TxtY == <<",", " ", "y", ":", " ">>

TxtSize == <<",", " ", "s", "h", "a", "p", "e", "s", "i", "z", "e", ":", " ">>

TxtFill == <<",", " ", "f", "i", "l", "l", "K", "i", "n", "d", ":", " ">>

TxtClose == <<"]">>

Digits == <<"0", "1", "2", "3", "4", "5", "6", "7", "8", "9">>

RECURSIVE NatToChars(_)
NatToChars(n) ==
    IF n < 10 THEN <<Digits[n + 1]>>
    ELSE NatToChars(n \div 10) \o <<Digits[(n % 10) + 1]>>

\* An int streamed in decimal.
IntToChars(n) == IF n < 0 THEN <<"-">> \o NatToChars(-n) ELSE NatToChars(n)

\* The color of a default-constructed ShapeTypeExtended: the empty string.
EmptyText == << >>

\* colours::ToStr, indexed from colours::MIN_COLOUR; the row of a color is its index.
ToStr == <<PURPLE, BLUE, RED, GREEN, YELLOW, CYAN, MAGENTA, ORANGE>>

MIN_COLOUR == 1

MAX_COLOUR == 9

Palette == {ToStr[c] : c \in MIN_COLOUR..(MAX_COLOUR - 1)}

(* ------------------------- publisher constants ------------------------ *)

left == 15

top == 15

right == 248

bottom == 278

shape_size == 30

SOLID_FILL == "SOLID_FILL"

\* AMPLITUDE * std::sin(FREQUENCY * x) for x = left - shape_size .. right,
\* evaluated in single precision as the program does, in thousandths
\* (rounded down).  Entry i is for x = left - shape_size + i - 1.
AmpSinMilli ==
    << -65373, -61706, -57900, -53964, -49905, -45734, -41460, -37093, -32641, -28116,
       -23528, -18886, -14202, -9486, -4749, 0, 4748, 9485, 14201, 18885,
       23527, 28115, 32640, 37092, 41459, 45733, 49904, 53963, 57899, 61705,
       65372, 68892, 72256, 75457, 78487, 81341, 84011, 86492, 88778, 90863,
       92743, 94414, 95872, 97114, 98137, 98939, 99517, 99871, 99999, 99902,
       99579, 99032, 98262, 97269, 96058, 94630, 92988, 91136, 89079, 86821,
       84367, 81723, 78894, 75888, 72710, 69368, 65870, 62223, 58436, 54517,
       50475, 46319, 42058, 37703, 33263, 28747, 24167, 19532, 14854, 10141,
       5406, 659, -4090, -8830, -13549, -18239, -22887, -27483, -32017, -36479,
       -40859, -45147, -49333, -53407, -57362, -61186, -64873, -68413, -71799, -75023,
       -78078, -80957, -83653, -86160, -88473, -90587, -92496, -94196, -95684, -96956,
       -98009, -98842, -99451, -99836, -99996, -99930, -99639, -99123, -98383, -97421,
       -96240, -94842, -93229, -91407, -89378, -87147, -84720, -82102, -79299, -76316,
       -73162, -69842, -66365, -62739, -58970, -55069, -51044, -46903, -42656, -38314,
       -33885, -29379, -24807, -20180, -15506, -10798, -6065, -1319, 3430, 8172,
       12895, 17589, 22243, 26847, 31391, 35864, 40256, 44557, 48757, 52848,
       56819, 60663, 64369, 67930, 71338, 74585, 77664, 80567, 83289, 85823,
       88163, 90304, 92242, 93972, 95489, 96791, 97875, 98738, 99379, 99795,
       99986, 99951, 99691, 99207, 98498, 97567, 96416, 95048, 93465, 91671,
       89670, 87468, 85068, 82476, 79697, 76740, 73609, 70312, 66856, 63250,
       59501, 55617, 51608, 47483, 43251, 38921, 34503, 30008, 25444, 20824,
       16156, 11452, 6722, 1977, -2772, -7516, -12242, -16941, -21601, -26213,
       -30765, -35249, -39652, -43967, -48182, -52288, -56277, -60138, -63864, -67446,
       -70875, -74145, -77248, -80176, -82923, -85483, -87851, -90020, -91986, -93745,
       -95292, -96625, -97739, -98633, -99304, -99752, -99974, -99971, -99742, -99288,
       -98611, -97710, -96590, -95251, -93698, -91933, -89961, -87786, -85413, -82848,
       -80095, -77162, -74054, -70780 >>

\* The conversion to int rounding to the nearest integer instead.
RoundToInt(milli) ==
    IF milli >= 0 THEN (milli + 500) \div 1000 ELSE -((-milli + 500) \div 1000)

\* The value assigned to the int y at line 71: the int 131 is converted to
\* float, the sum is formed and the conversion to int drops the fraction
\* (towards zero).
TruncToInt(milli) ==
    IF milli >= 0 THEN milli \div 1000 ELSE -((-milli) \div 1000)

YOf(xv) ==
    TruncToInt(((bottom - top) \div 2) * 1000 + AmpSinMilli[xv - (left - shape_size) + 1])

(* ------------------------------ bounds -------------------------------- *)

\* The publisher's sample_count is drawn from 0..MaxSmallCount and
\* MaxSampleCount, the latter large enough for x to pass right and wrap.
MaxSmallCount == 4

MaxSampleCount == 266

SampleCounts == (0..MaxSmallCount) \cup {MaxSampleCount}

VARIABLES
    sample_count,        \* per process: the --sample-count argument
    shutdown_requested,  \* per process: application::shutdown_requested
    pub_pc,              \* publisher: position in run_publisher_application
    color,               \* publisher: the --color argument
    data,                \* publisher: the ShapeTypeExtended sample object
    instance_handle,     \* publisher: result of register_instance
    x, y,                \* publisher: trajectory locals
    samples_written,     \* publisher: loop counter
    bus,                 \* publisher: calls made on the DataWriter, in order
    sub_pc,              \* subscriber: position in main / run_subscriber_application
    parse_result,        \* subscriber: arguments.parse_result
    terminal,            \* subscriber: "normal", or "curses" between initscr and endwin
    exit_code,           \* subscriber: value main returned
    samples_read,        \* subscriber: counter of run_subscriber_application
    log_data,            \* subscriber: the static deque of log lines
    screen,              \* subscriber: text of each screen row
    received,            \* subscriber: every notification taken so far, in order
    pushed,              \* subscriber: every line passed to display_log, in order
    last                 \* subscriber: the latest process_data call: batch, calls, ret

pubvars == <<pub_pc, color, data, instance_handle, x, y, samples_written, bus>>

subvars == <<sub_pc, parse_result, terminal, exit_code, samples_read, log_data,
             screen, received, pushed, last>>

vars == <<sample_count, shutdown_requested, pubvars, subvars>>

(* ----------------------------- publisher ------------------------------ *)

\* ::ShapeTypeExtended data;  (value-initialised members)
DefaultShape ==
    [color |-> EmptyText, x |-> 0, y |-> 0, shapesize |-> 0, fillKind |-> SOLID_FILL]

\* The handle register_instance returns identifies the instance by the key
\* (color) the sample holds at the time of the call.
RegisterInstance(d) == d.color

InitPub ==
    /\ pub_pc = "setup"
    /\ color \in Palette
    /\ data = DefaultShape
    /\ instance_handle = EmptyText
    /\ x = 0
    /\ y = 0
    /\ samples_written = 0
    /\ bus = << >>

\* PubSetup with the assignment of line 61 left out.
PubSetupWithoutSize ==
    /\ pub_pc = "setup"
    /\ instance_handle' = RegisterInstance(data)
    /\ x' = left - shape_size
    /\ y' = bottom - (top \div 2)
    /\ data' = [data EXCEPT !.color = color, !.fillKind = SOLID_FILL]
    /\ samples_written' = 0
    /\ pub_pc' = "loop_test"
    /\ UNCHANGED <<color, bus, sample_count, shutdown_requested, subvars>>

\* Lines 49-65: construct the sample, register the instance, initialise the
\* trajectory, fill in the constant fields, samples_written = 0.
PubSetup ==
    /\ pub_pc = "setup"
    /\ instance_handle' = RegisterInstance(data)
    /\ x' = left - shape_size
    /\ y' = bottom - (top \div 2)
    /\ data' = [data EXCEPT !.color = color, !.shapesize = shape_size,
                            !.fillKind = SOLID_FILL]
    /\ samples_written' = 0
    /\ pub_pc' = "loop_test"
    /\ UNCHANGED <<color, bus, sample_count, shutdown_requested, subvars>>

\* The loop condition without the test of the shutdown flag.
PubLoopCondIgnoresShutdown == samples_written < sample_count.pub

\* The loop condition with <= for <.
PubLoopCondOffByOne ==
    ~shutdown_requested.pub /\ samples_written <= sample_count.pub

\* Line 66: the loop condition.
PubLoopCond == ~shutdown_requested.pub /\ samples_written < sample_count.pub

PubLoopTest ==
    /\ pub_pc = "loop_test"
    /\ pub_pc' = IF PubLoopCond THEN "body" ELSE "dispose"
    /\ UNCHANGED <<color, data, instance_handle, x, y, samples_written, bus,
                   sample_count, shutdown_requested, subvars>>

\* The wrap test with >= for >.
NextXWrapAtRight(xv) == IF xv + 1 >= right THEN left - shape_size ELSE xv + 1

\* Lines 68-69.
NextX(xv) == IF xv + 1 > right THEN left - shape_size ELSE xv + 1

\* Lines 68-78: advance x, compute y, store both in the sample and write it.
PubWrite ==
    /\ pub_pc = "body"
    /\ x' = NextX(x)
    /\ y' = YOf(x')
    /\ data' = [data EXCEPT !.x = x', !.y = y']
    /\ bus' = Append(bus, [op |-> "write", sample |-> data'])
    /\ pub_pc' = "sleep"
    /\ UNCHANGED <<color, instance_handle, samples_written,
                   sample_count, shutdown_requested, subvars>>

\* Line 80 and the loop's ++samples_written.
PubSleep ==
    /\ pub_pc = "sleep"
    /\ samples_written' = samples_written + 1
    /\ pub_pc' = "loop_test"
    /\ UNCHANGED <<color, data, instance_handle, x, y, bus,
                   sample_count, shutdown_requested, subvars>>

\* Line 84.
PubDispose ==
    /\ pub_pc = "dispose"
    /\ bus' = Append(bus, [op |-> "dispose", handle |-> instance_handle])
    /\ pub_pc' = "done"
    /\ UNCHANGED <<color, data, instance_handle, x, y, samples_written,
                   sample_count, shutdown_requested, subvars>>

\* The signal handler sets the publisher's flag at any moment of the run.
PubSignal ==
    /\ pub_pc # "done"
    /\ ~shutdown_requested.pub
    /\ shutdown_requested' = [shutdown_requested EXCEPT !.pub = TRUE]
    /\ UNCHANGED <<pubvars, sample_count, subvars>>

NextPub ==
    \/ PubSetup
    \/ PubLoopTest
    \/ PubWrite
    \/ PubSleep
    \/ PubDispose
    \/ PubSignal

(* ----------------------------- subscriber ----------------------------- *)

log_y == 20

\* Rows of the terminal (LINES).
ScreenRows == 25

Max(a, b) == IF a >= b THEN a ELSE b

\* The cells of one row after a string is written from column col (0-based):
\* the string's characters replace the cells they cover; cells to the right
\* of the string keep their contents.
Overwrite(line, col, str) ==
    IF Len(str) = 0 THEN line
    ELSE [i \in 1..Max(Len(line), col + Len(str)) |->
            IF i > col /\ i <= col + Len(str) THEN str[i - col]
            ELSE IF i <= Len(line) THEN line[i]
            ELSE " "]

\* mvaddstr(row, col, str); a row outside the screen is an error and writes
\* nothing.
Mvaddstr(scr, row, col, str) ==
    IF row \in DOMAIN scr
    THEN [scr EXCEPT ![row] = Overwrite(@, col, str)]
    ELSE scr

\* The deque after push_back and the pop_front of lines 50-51, without the
\* size test.
PushLogLineNoEvict(q, logline) == Append(q, logline)

\* Lines 49-51.
PushLogLine(q, logline) ==
    LET q1 == Append(q, logline)
    IN IF Len(q1) > 5 THEN Tail(q1) ELSE q1

\* Lines 53-56: the deque's lines on consecutive rows from log_y.
RECURSIVE DrawLog(_, _, _)
DrawLog(scr, q, i) ==
    IF i > Len(q) THEN scr
    ELSE DrawLog(Mvaddstr(scr, log_y + i - 1, 0, q[i]), q, i + 1)

\* display_log, on the display state d = [screen, log_data, pushed, calls].
display_log(d, logline) ==
    LET q == PushLogLine(d.log_data, logline)
    IN [d EXCEPT !.log_data = q,
                 !.screen = DrawLog(d.screen, q, 1),
                 !.pushed = Append(@, logline),
                 !.calls = Append(@, [fn |-> "display_log", arg |-> logline])]

\* ss << shape: the textual rendition of a sample.
ShapeText(shape) ==
    TxtX \o IntToChars(shape.x) \o TxtY \o IntToChars(shape.y)
         \o TxtSize \o IntToChars(shape.shapesize)
         \o TxtFill \o <<"S", "O", "L", "I", "D", "_", "F", "I", "L", "L">>
         \o TxtClose

\* The comparison of line 64 on the first character only.
MatchingColoursByInitial(shape) ==
    {c \in MIN_COLOUR..(MAX_COLOUR - 1) :
        Len(shape.color) > 0 /\ shape.color[1] = ToStr[c][1]}

\* Lines 63-64: the palette indices whose name equals the sample's color.
MatchingColours(shape) ==
    {c \in MIN_COLOUR..(MAX_COLOUR - 1) : shape.color = ToStr[c]}

\* The row display_sample writes: the first matching index (the loop breaks
\* there).
RowOf(shape) ==
    CHOOSE c \in MatchingColours(shape) : \A e \in MatchingColours(shape) : c <= e

\* display_sample.  Lines 66-76 switch display attributes (color pair, bold)
\* around the name; a cell here holds its character, not its attributes.
display_sample(d, shape) ==
    LET called == [d EXCEPT !.calls =
                       Append(@, [fn |-> "display_sample", arg |-> shape])]
    IN IF MatchingColours(shape) = {} THEN called
       ELSE [called EXCEPT !.screen =
                Mvaddstr(Mvaddstr(d.screen, RowOf(shape), 0, shape.color),
                         RowOf(shape), 10, ShapeText(shape))]

ALIVE == "ALIVE"

NOT_ALIVE_DISPOSED == "NOT_ALIVE_DISPOSED"

NOT_ALIVE_NO_WRITERS == "NOT_ALIVE_NO_WRITERS"

InstanceStates == {ALIVE, NOT_ALIVE_DISPOSED, NOT_ALIVE_NO_WRITERS}

SampleStates == {"READ", "NOT_READ"}

\* ss << instance_state.
InstanceStateText(is) ==
    CASE is = ALIVE -> <<"A", "L", "I", "V", "E">>
      [] is = NOT_ALIVE_DISPOSED ->
            <<"N", "O", "T", "_", "A", "L", "I", "V", "E", "_",
              "D", "I", "S", "P", "O", "S", "E", "D">>
      [] is = NOT_ALIVE_NO_WRITERS ->
            <<"N", "O", "T", "_", "A", "L", "I", "V", "E", "_",
              "N", "O", "_", "W", "R", "I", "T", "E", "R", "S">>

\* reader.key_value(key_shape, handle): the sample holding the key fields of
\* the instance the handle identifies.
KeyValue(handle) == [DefaultShape EXCEPT !.color = handle]

\* The test of lines 105-106 with || for &&.
IsDroppedEitherState(n) ==
    n.instance_state = NOT_ALIVE_NO_WRITERS \/ n.sample_state = "NOT_READ"

\* Lines 105-106.
IsDropped(n) ==
    n.instance_state = NOT_ALIVE_NO_WRITERS /\ n.sample_state = "NOT_READ"

\* Lines 101-116: the line logged for a notification without valid data.
LogLine(n) ==
    LET key_shape == KeyValue(n.instance_handle)
    IN IF IsDropped(n)
       THEN TxtInstanceWithKey \o key_shape.color \o TxtHasDropped
       ELSE TxtInstanceWithKey \o key_shape.color \o TxtChangedTo
                \o InstanceStateText(n.instance_state)

\* The loop body of process_data with the count++ outside the if.
ProcessOneCountsAll(st, n) ==
    IF n.valid
    THEN [count |-> st.count + 1, d |-> display_sample(st.d, n.data)]
    ELSE [count |-> st.count + 1, d |-> display_log(st.d, LogLine(n))]

\* The loop body of process_data without the count++ of line 96.
ProcessOneNoCount(st, n) ==
    IF n.valid
    THEN [count |-> st.count, d |-> display_sample(st.d, n.data)]
    ELSE [count |-> st.count, d |-> display_log(st.d, LogLine(n))]

\* Lines 95-117: the loop body of process_data for one notification, on
\* st = [count, d].
ProcessOne(st, n) ==
    IF n.valid
    THEN [count |-> st.count + 1, d |-> display_sample(st.d, n.data)]
    ELSE [count |-> st.count, d |-> display_log(st.d, LogLine(n))]

\* Lines 94-118: the loop over the batch, from its i-th notification.
RECURSIVE ProcessFrom(_, _, _)
ProcessFrom(st, batch, i) ==
    IF i > Len(batch) THEN st
    ELSE ProcessFrom(ProcessOne(st, batch[i]), batch, i + 1)

\* process_data for the batch that take() returned: the count it returns
\* and the display state it leaves.
process_data(d, batch) == ProcessFrom([count |-> 0, d |-> d], batch, 1)

(* --------------------- subscriber: inputs and bounds ------------------- *)

\* Total number of notifications the bus delivers to the reader in a run.
MaxNotifications == 2

\* Largest sample_count given to the subscriber.
MaxSubCount == 1

\* Number of display_log calls in a run of SpecLog.
MaxLogCalls == 7

Shape(c, xv) ==
    [color |-> c, x |-> xv, y |-> YOf(xv), shapesize |-> shape_size,
     fillKind |-> SOLID_FILL]

ValidNotifications ==
    {[valid |-> TRUE, data |-> sh, instance_handle |-> RegisterInstance(sh),
      instance_state |-> ALIVE, sample_state |-> "NOT_READ"] :
        sh \in {Shape(RED, -15), Shape(RED, 5), Shape(BLACK, 5)}}

InvalidNotifications ==
    {[valid |-> FALSE, data |-> DefaultShape, instance_handle |-> k,
      instance_state |-> is, sample_state |-> ss] :
        k \in {RED, BLACK}, is \in InstanceStates, ss \in SampleStates}

Notifications == ValidNotifications \cup InvalidNotifications

Batches(maxlen) == UNION {[1..n -> Notifications] : n \in 1..maxlen}

(* -------------------- subscriber: main and the loop -------------------- *)

InitSub ==
    /\ sub_pc = "main"
    /\ parse_result \in {"ok", "exit", "failure"}
    /\ terminal = "normal"
    /\ exit_code = -1
    /\ samples_read = 0
    /\ log_data = << >>
    /\ screen = [r \in 0..(ScreenRows - 1) |-> << >>]
    /\ received = << >>
    /\ pushed = << >>
    /\ last = [batch |-> << >>, calls |-> << >>, ret |-> 0]

Display == [screen |-> screen, log_data |-> log_data, pushed |-> pushed,
            calls |-> << >>]

\* Lines 163-182: initscr, cbreak, noecho, color setup, clear.
SubMainInit ==
    /\ sub_pc = "main"
    /\ terminal' = "curses"
    /\ screen' = [r \in 0..(ScreenRows - 1) |-> << >>]
    /\ sub_pc' = "parse"
    /\ UNCHANGED <<parse_result, exit_code, samples_read, log_data, received,
                   pushed, last, sample_count, shutdown_requested, pubvars>>

\* Lines 185-194: parse_arguments and the two early returns.
SubParse ==
    /\ sub_pc = "parse"
    /\ \/ /\ parse_result = "exit"
          /\ exit_code' = 0
          /\ sub_pc' = "exited"
       \/ /\ parse_result = "failure"
          /\ exit_code' = 1
          /\ sub_pc' = "exited"
       \/ /\ parse_result = "ok"
          /\ exit_code' = exit_code
          /\ sub_pc' = "run_setup"
    /\ UNCHANGED <<parse_result, terminal, samples_read, log_data, screen,
                   received, pushed, last, sample_count, shutdown_requested,
                   pubvars>>

\* Lines 129-148: participant, topic, reader, read condition, waitset;
\* samples_read = 0.
SubRunSetup ==
    /\ sub_pc = "run_setup"
    /\ samples_read' = 0
    /\ sub_pc' = "loop_test"
    /\ UNCHANGED <<parse_result, terminal, exit_code, log_data, screen, received,
                   pushed, last, sample_count, shutdown_requested, pubvars>>

\* The loop condition with <= for <.
SubLoopCondOffByOne ==
    ~shutdown_requested.sub /\ samples_read <= sample_count.sub

\* Line 150: the loop condition.
SubLoopCond == ~shutdown_requested.sub /\ samples_read < sample_count.sub

SubLoopTest ==
    /\ sub_pc = "loop_test"
    /\ sub_pc' = IF SubLoopCond THEN "dispatch" ELSE "finish"
    /\ UNCHANGED <<parse_result, terminal, exit_code, samples_read, log_data,
                   screen, received, pushed, last, sample_count,
                   shutdown_requested, pubvars>>

\* Lines 154 and 144 with 88-121: dispatch finds the read condition active
\* and runs its handler, which takes the batch and adds the count
\* process_data returns to samples_read.
Dispatch(batch) ==
    /\ sub_pc = "dispatch"
    /\ LET st == process_data(Display, batch)
       IN /\ samples_read' = samples_read + st.count
          /\ screen' = st.d.screen
          /\ log_data' = st.d.log_data
          /\ pushed' = st.d.pushed
          /\ last' = [batch |-> batch, calls |-> st.d.calls, ret |-> st.count]
    /\ received' = received \o batch
    /\ sub_pc' = "loop_test"
    /\ UNCHANGED <<parse_result, terminal, exit_code, sample_count,
                   shutdown_requested, pubvars>>

SubDispatch ==
    \E batch \in Batches(MaxNotifications - Len(received)) : Dispatch(batch)

\* Line 154: dispatch returns after its one-second timeout, no handler run.
SubDispatchTimeout ==
    /\ sub_pc = "dispatch"
    /\ sub_pc' = "loop_test"
    /\ UNCHANGED <<parse_result, terminal, exit_code, samples_read, log_data,
                   screen, received, pushed, last, sample_count,
                   shutdown_requested, pubvars>>

\* Lines 196-203: run_subscriber_application throws (a DDS exception from
\* the setup or from dispatch); main reports it and returns EXIT_FAILURE.
SubException ==
    /\ sub_pc \in {"run_setup", "dispatch"}
    /\ exit_code' = 1
    /\ sub_pc' = "exited"
    /\ UNCHANGED <<parse_result, terminal, samples_read, log_data, screen,
                   received, pushed, last, sample_count, shutdown_requested,
                   pubvars>>

\* Lines 205-211: finalize_participant_factory, endwin, return EXIT_SUCCESS.
SubFinish ==
    /\ sub_pc = "finish"
    /\ terminal' = "normal"
    /\ exit_code' = 0
    /\ sub_pc' = "exited"
    /\ UNCHANGED <<parse_result, samples_read, log_data, screen, received,
                   pushed, last, sample_count, shutdown_requested, pubvars>>

\* The signal handler (installed at line 191) sets the subscriber's flag.
SubSignal ==
    /\ sub_pc \in {"run_setup", "loop_test", "dispatch"}
    /\ ~shutdown_requested.sub
    /\ shutdown_requested' = [shutdown_requested EXCEPT !.sub = TRUE]
    /\ UNCHANGED <<subvars, sample_count, pubvars>>

NextSub ==
    \/ SubMainInit
    \/ SubParse
    \/ SubRunSetup
    \/ SubLoopTest
    \/ SubDispatch
    \/ SubDispatchTimeout
    \/ SubException
    \/ SubFinish
    \/ SubSignal

\* display_log called on its own with one of the lines process_data builds.
LogLines ==
    {LogLine(n) : n \in {m \in InvalidNotifications :
                            m.instance_handle = RED /\ m.sample_state = "NOT_READ"}}

LogCall ==
    /\ terminal = "curses"
    /\ Len(pushed) < MaxLogCalls
    /\ \E logline \in LogLines :
          LET d == display_log(Display, logline)
          IN /\ log_data' = d.log_data
             /\ screen' = d.screen
             /\ pushed' = d.pushed
    /\ UNCHANGED <<sub_pc, parse_result, terminal, exit_code, samples_read,
                   received, last, sample_count, shutdown_requested, pubvars>>

NextLog ==
    \/ SubMainInit
    \/ LogCall

(* --------------------------- specifications ---------------------------- *)

Init ==
    /\ sample_count \in [pub : SampleCounts, sub : 0..MaxSubCount]
    /\ shutdown_requested = [pub |-> FALSE, sub |-> FALSE]
    /\ InitPub
    /\ InitSub

\* The publisher process alone: the subscriber's inputs are held fixed.
InitPubOnly == Init /\ sample_count.sub = 0 /\ parse_result = "ok"

SpecPub == InitPubOnly /\ [][NextPub]_vars

\* The subscriber process alone: the publisher's inputs are held fixed.
InitSubOnly == Init /\ sample_count.pub = 0 /\ color = RED

SpecSub == InitSubOnly /\ [][NextSub]_vars

\* Both processes side by side, on small inputs: the subscriber is handed
\* single-notification batches.
InitBoth == Init /\ sample_count.pub <= 1 /\ color = RED /\ parse_result = "ok"

SmallNotifications ==
    {n \in Notifications :
        \/ n.valid /\ n.data = Shape(RED, 5)
        \/ ~n.valid /\ n.instance_handle = RED /\ n.sample_state = "NOT_READ"
              /\ n.instance_state = NOT_ALIVE_NO_WRITERS}

SubDispatchOne ==
    /\ Len(received) < MaxNotifications
    /\ \E n \in SmallNotifications : Dispatch(<<n>>)

NextBoth ==
    \/ NextPub
    \/ SubMainInit
    \/ SubParse
    \/ SubRunSetup
    \/ SubLoopTest
    \/ SubDispatchOne
    \/ SubDispatchTimeout
    \/ SubFinish
    \/ SubSignal

SpecBoth == InitBoth /\ [][NextBoth]_vars

\* Both processes side by side with the publisher given up to 2 samples.
\* The publisher is a sequential program that keeps running: a step it can
\* take (a write, the one-second sleep, the dispose) is eventually taken.
\* The signal is under no such obligation.
InitShutdown ==
    Init /\ sample_count.pub <= 2 /\ color = RED /\ parse_result = "ok"

PubStep == PubSetup \/ PubLoopTest \/ PubWrite \/ PubSleep \/ PubDispose

SpecShutdown == InitShutdown /\ [][NextBoth]_vars /\ WF_vars(PubStep)

\* display_log alone.
InitLog == InitPubOnly /\ InitSubOnly

SpecLog == InitLog /\ [][NextLog]_vars

(* ----------------------- claims: the publisher ------------------------- *)

Writes == {i \in 1..Len(bus) : bus[i].op = "write"}

Disposes == {i \in 1..Len(bus) : bus[i].op = "dispose"}

IsWrite(i) == i \in 1..Len(bus) /\ bus[i].op = "write"

Min(a, b) == IF a <= b THEN a ELSE b

\* C1: for every sample_count and every moment the shutdown flag is set, a
\* finished run has made exactly min(sample_count, iterations started before
\* shutdown was observed) writes, followed by exactly one dispose_instance;
\* no write ever follows a dispose.  (samples_written counts the iterations
\* started; the loop stops short of sample_count only on shutdown.)
C1_WritesThenOneDispose ==
    /\ \A i \in Disposes : i = Len(bus)
    /\ pub_pc = "done" =>
          /\ Cardinality(Disposes) = 1
          /\ Cardinality(Writes) = Min(sample_count.pub, samples_written)
          /\ Writes = 1..(Len(bus) - 1)
          /\ (Cardinality(Writes) < sample_count.pub => shutdown_requested.pub)

C1_Witness ==
    /\ pub_pc = "done"
    /\ sample_count.pub = 4
    /\ shutdown_requested.pub
    /\ Cardinality(Writes) = 2
    /\ bus[3].op = "dispose"

\* C2 (as claimed): the handle given to dispose_instance identifies the key
\* (the configured color) that every written sample carries.
C2_DisposedIsWrittenInstance ==
    \A i \in Disposes :
        /\ bus[i].handle = RegisterInstance([DefaultShape EXCEPT !.color = color])
        /\ \A j \in Writes : bus[i].handle = RegisterInstance(bus[j].sample)

\* C3: the x of the n-th write is the previous x (initially left - shape_size)
\* plus 1, reset to left - shape_size when that exceeds right; the first three
\* writes carry left - shape_size + 1, + 2, + 3; every x is in
\* [left - shape_size, right].
C3_XTrajectory ==
    \A i \in Writes :
        LET prev == IF i = 1 THEN -15 ELSE bus[i - 1].sample.x
            cur == bus[i].sample.x
        IN /\ cur = (IF prev + 1 > 248 THEN -15 ELSE prev + 1)
           /\ (i <= 3 => cur = -15 + i)
           /\ -15 <= cur /\ cur <= 248

\* A write carrying right is followed by a write carrying left - shape_size.
C3_Witness ==
    \E i \in Writes :
        /\ IsWrite(i + 1)
        /\ bus[i].sample.x = 248
        /\ bus[i + 1].sample.x = -15

\* C10: every written sample carries the configured color, shapesize 30 and
\* fillKind SOLID_FILL; successive writes differ in x and y at most.
C10_ConstantFields ==
    /\ \A i \in Writes :
          /\ bus[i].sample.color = color
          /\ bus[i].sample.shapesize = 30
          /\ bus[i].sample.fillKind = "SOLID_FILL"
    /\ \A i \in Writes : IsWrite(i + 1) =>
          \A f \in DOMAIN bus[i].sample \ {"x", "y"} :
              bus[i].sample[f] = bus[i + 1].sample[f]

C10_Witness ==
    /\ Cardinality(Writes) >= 2
    /\ bus[1].sample.x # bus[2].sample.x
    /\ bus[1].sample.y # bus[2].sample.y
    /\ bus[2].sample.color = ORANGE

\* amplitude * sin(frequency * xv), in thousandths, as the program evaluates it.
AmpSinOf(xv) == AmpSinMilli[xv + 16]

\* The nearest integer to a value given in thousandths.
Nearest(milli) == (milli + 500) \div 1000

\* C11 (as claimed): every written y is 131 plus amplitude * sin(frequency * x)
\* rounded to the nearest integer.
C11_YRounded ==
    \A i \in Writes :
        bus[i].sample.y = 131 + Nearest(AmpSinOf(bus[i].sample.x))

\* C11 (amended): every written y is 131 + amplitude * sin(frequency * x) with
\* the fraction dropped (the sum is positive, so y is the largest integer not
\* above it); y depends on x alone: writes with the same x carry the same y.
C11_YTruncated ==
    /\ \A i \in Writes :
          LET sum == 131 * 1000 + AmpSinOf(bus[i].sample.x)
              yv == bus[i].sample.y
          IN sum >= 0 /\ yv * 1000 <= sum /\ sum < (yv + 1) * 1000
    /\ IsWrite(Len(bus)) =>
          \A i \in Writes :
              bus[i].sample.x = bus[Len(bus)].sample.x
                  => bus[i].sample.y = bus[Len(bus)].sample.y

\* x = -9 has been written with y = 89 (the sum is 89.54), and x = -14 has
\* been written twice, before and after the wrap.
C11_Witness ==
    /\ Len(bus) >= 265
    /\ IsWrite(265)
    /\ bus[6].sample.x = -9 /\ bus[6].sample.y = 89
    /\ bus[1].sample.x = -14 /\ bus[265].sample.x = -14
    /\ bus[1].sample.y = bus[265].sample.y

(* ----------------------- claims: the subscriber ------------------------ *)

ValidIn(b) == {i \in 1..Len(b) : b[i].valid}

InvalidIn(b) == {i \in 1..Len(b) : ~b[i].valid}

CallsOf(fn) == {i \in 1..Len(last.calls) : last.calls[i].fn = fn}

\* C4: for the batch of one take with k valid-data and m invalid-data
\* notifications in any order, process_data returns k, calls display_sample
\* k times and display_log m times, and its i-th call handles the i-th
\* notification of the batch.
C4_BatchHandledOnceInOrder ==
    LET b == last.batch
    IN /\ last.ret = Cardinality(ValidIn(b))
       /\ Cardinality(CallsOf("display_sample")) = Cardinality(ValidIn(b))
       /\ Cardinality(CallsOf("display_log")) = Cardinality(InvalidIn(b))
       /\ Len(last.calls) = Len(b)
       /\ \A i \in ValidIn(b) :
             last.calls[i] = [fn |-> "display_sample", arg |-> b[i].data]
       /\ \A i \in InvalidIn(b) :
             \* the line names the notification's key after "Instance with key "
             /\ last.calls[i].fn = "display_log"
             /\ \E j \in 1..Len(last.calls[i].arg) :
                   SubSeq(last.calls[i].arg, Len(TxtInstanceWithKey) + 1, j)
                       = b[i].instance_handle

C4_Witness ==
    /\ Len(last.batch) = 2
    /\ ~last.batch[1].valid
    /\ last.batch[2].valid
    /\ last.ret = 1
    /\ last.calls[1].fn = "display_log"
    /\ last.calls[2].fn = "display_sample"

TxtRedDropped ==
    <<"I", "n", "s", "t", "a", "n", "c", "e", " ", "w", "i", "t", "h", " ",
      "k", "e", "y", " ", "R", "E", "D", " ", "h", "a", "s", " ", "d", "r",
      "o", "p", "p", "e", "d", " ", "f", "r", "o", "m", " ", "t", "h", "e",
      " ", "d", "a", "t", "a", "b", "u", "s">>

\* The lines the latest process_data call passed to display_log.
LoggedByLast ==
    SubSeq(pushed, Len(pushed) - Cardinality(InvalidIn(last.batch)) + 1, Len(pushed))

\* C5: for a metadata notification process_data logs "Instance with key
\* {color} has dropped from the databus" exactly when instance_state is
\* not_alive_no_writers and sample_state is not_read, and otherwise
\* "Instance with key {color} changed to {instance_state}", {color} being
\* the key of the notification's instance.
C5_LifecycleLine ==
    LET b == last.batch
    IN /\ \A i \in InvalidIn(b) :
          LET line == last.calls[i].arg
              key == b[i].instance_handle
              dropped == TxtInstanceWithKey \o key \o TxtHasDropped
              changed == TxtInstanceWithKey \o key \o TxtChangedTo
                            \o InstanceStateText(b[i].instance_state)
              nowriters_notread ==
                  /\ b[i].instance_state = "NOT_ALIVE_NO_WRITERS"
                  /\ b[i].sample_state = "NOT_READ"
          IN /\ (line = dropped) <=> nowriters_notread
             /\ ~nowriters_notread => line = changed
             /\ (nowriters_notread /\ key = RED) => line = TxtRedDropped
       /\ LoggedByLast = [j \in 1..Cardinality(InvalidIn(b)) |->
             last.calls[CHOOSE i \in InvalidIn(b) :
                 Cardinality({e \in InvalidIn(b) : e <= i}) = j].arg]
       /\ (InvalidIn(b) # {} => log_data[Len(log_data)] = pushed[Len(pushed)])

\* One batch with both kinds of line: RED dropped, then BLACK changed.
C5_Witness ==
    /\ Len(last.batch) = 2
    /\ InvalidIn(last.batch) = {1, 2}
    /\ last.batch[1].instance_state = "NOT_ALIVE_NO_WRITERS"
    /\ last.batch[1].sample_state = "NOT_READ"
    /\ last.batch[1].instance_handle = RED
    /\ last.batch[2].instance_state = "NOT_ALIVE_NO_WRITERS"
    /\ last.batch[2].sample_state = "READ"
    /\ last.batch[2].instance_handle = BLACK
    /\ log_data = <<TxtRedDropped,
                    TxtInstanceWithKey \o BLACK \o TxtChangedTo
                        \o InstanceStateText("NOT_ALIVE_NO_WRITERS")>>

\* C6: after any sequence of display_log calls the log holds at most 5
\* lines, exactly the latest min(5, number of calls) lines in the order
\* pushed; after the 6th call it holds lines 2 to 6.
C6_LogKeepsLatestFive ==
    LET n == Len(pushed)
        kept == Min(5, n)
    IN /\ Len(log_data) <= 5
       /\ log_data = SubSeq(pushed, n - kept + 1, n)
       /\ (n = 6 => log_data = <<pushed[2], pushed[3], pushed[4], pushed[5], pushed[6]>>)

\* Six calls made, and the first line is gone from the log.
C6_Witness ==
    /\ Len(pushed) = 6
    /\ Len(log_data) = 5
    /\ \A i \in 1..5 : log_data[i] # pushed[1]
    /\ log_data[1] = pushed[2]

\* C8 (as claimed): whenever the subscriber's main has returned, the
\* terminal put into curses mode by initscr is back in normal mode.
C8_TerminalRestoredOnExit ==
    sub_pc = "exited" => terminal = "normal"

KnownOnly(b) == SelectSeq(b, LAMBDA n : ~n.valid \/ n.data.color \in Palette)

UnknownIn(b) == {i \in ValidIn(b) : b[i].data.color \notin Palette}

\* C9: a valid-data notification whose color is outside the palette leaves
\* the screen and the log as they are, is counted in the value process_data
\* returns, and does not keep the rest of its batch from being processed:
\* a batch leaves the screen and the log as the same batch without such
\* notifications does, and a batch of such notifications only leaves both
\* unchanged.
C9_UnknownColorIgnored ==
    [][received' # received =>
        LET b == last'.batch
            rest == process_data(Display, KnownOnly(b))
        IN /\ screen' = rest.d.screen
           /\ log_data' = rest.d.log_data
           /\ pushed' = rest.d.pushed
           /\ last'.ret = rest.count + Cardinality(UnknownIn(b))
           /\ samples_read' = samples_read + last'.ret
           /\ Len(last'.calls) = Len(b)
           /\ (KnownOnly(b) = << >> =>
                  /\ screen' = screen
                  /\ log_data' = log_data
                  /\ pushed' = pushed
                  /\ last'.ret = Len(b))]_vars

\* A batch of a BLACK sample followed by a RED sample: both counted, RED's
\* row written, every other row empty.
C9_Witness ==
    /\ Len(last.batch) = 2
    /\ last.batch[1].valid /\ last.batch[1].data.color = BLACK
    /\ last.batch[2].valid /\ last.batch[2].data.color = RED
    /\ last.ret = 2
    /\ samples_read = 2
    /\ screen[3] # << >>
    /\ \A r \in DOMAIN screen \ {3} : screen[r] = << >>
    /\ log_data = << >>

\* C13: samples_read is the number of valid-data notifications in all the
\* batches taken so far; no dispatch is in progress once samples_read >=
\* sample_count; a batch is always processed to its end; so the loop is left
\* without shutdown only with samples_read >= sample_count (possibly above).
C13_SamplesReadCountsValid ==
    /\ samples_read = Cardinality(ValidIn(received))
    /\ sub_pc = "dispatch" => samples_read < sample_count.sub
    /\ Len(last.calls) = Len(last.batch)
    /\ Len(received) >= Len(last.batch)
    /\ SubSeq(received, Len(received) - Len(last.batch) + 1, Len(received)) = last.batch
    /\ (sub_pc = "finish" /\ ~shutdown_requested.sub) => samples_read >= sample_count.sub

\* The loop was left without shutdown above its sample_count, after a batch
\* of two samples.
C13_Witness ==
    /\ sub_pc = "finish"
    /\ ~shutdown_requested.sub
    /\ sample_count.sub = 1
    /\ samples_read = 2
    /\ Len(last.batch) = 2
    /\ received = last.batch

\* The text of a shape row as the claim has it: the color name at column 0,
\* the rendition from column 10.
ExpectedRow(shape) ==
    shape.color \o [i \in 1..(10 - Len(shape.color)) |-> " "] \o ShapeText(shape)

\* C14 (as claimed): after display_sample has rendered samples of a palette
\* color, that color's row is the color name followed by the rendition of
\* the latest sample and nothing else; the other rows and the log are as
\* before.
C14_RowShowsLatestOnly ==
    [][(/\ received' # received
        /\ \A i \in 1..Len(last'.batch) :
              /\ last'.batch[i].valid
              /\ last'.batch[i].data.color = last'.batch[1].data.color
              /\ last'.batch[i].data.color \in Palette) =>
           LET b == last'.batch
               latest == b[Len(b)].data
           IN /\ screen'[RowOf(latest)] = ExpectedRow(latest)
              /\ \A r \in DOMAIN screen \ {RowOf(latest)} : screen'[r] = screen[r]
              /\ log_data' = log_data]_vars

(* ------------------------ claims: both processes ----------------------- *)

\* C7 (as claimed): with sample_count 0 a loop is left only once shutdown
\* has been requested.
C7_ZeroCountUnbounded ==
    /\ (sample_count.pub = 0 /\ pub_pc \in {"dispose", "done"})
           => shutdown_requested.pub
    /\ (sample_count.sub = 0 /\ sub_pc = "finish") => shutdown_requested.sub

\* C7 (amended): with sample_count 0 neither loop runs its body: the
\* publisher writes nothing and the subscriber dispatches nothing, whether
\* or not shutdown is requested; a loop is left only when shutdown was
\* requested or the counter has reached sample_count.
C7_ZeroCountRunsNothing ==
    /\ sample_count.pub = 0 =>
          /\ pub_pc \notin {"body", "sleep"}
          /\ Writes = {}
    /\ sample_count.sub = 0 =>
          /\ sub_pc # "dispatch"
          /\ received = << >>
          /\ samples_read = 0
    /\ pub_pc \in {"dispose", "done"} =>
          shutdown_requested.pub \/ samples_written >= sample_count.pub
    /\ sub_pc = "finish" =>
          shutdown_requested.sub \/ samples_read >= sample_count.sub

\* Both processes have finished a run with sample_count 0 and no shutdown.
C7_Witness ==
    /\ sample_count = [pub |-> 0, sub |-> 0]
    /\ shutdown_requested = [pub |-> FALSE, sub |-> FALSE]
    /\ pub_pc = "done"
    /\ Len(bus) = 1
    /\ sub_pc = "exited"
    /\ exit_code = 0

\* C12: shutdown is observed only at the loop test.  Once the publisher's
\* flag is set, a write happens only as the rest of the iteration in flight
\* (position "body"), that iteration's sleep and increment still run, the
\* loop test starts no new iteration, and the publisher goes on to dispose
\* the instance and return.  Once the subscriber's flag is set, only the
\* dispatch in flight may still take a batch and the loop test starts no new
\* dispatch.
C12_ShutdownAtLoopTop ==
    /\ [][/\ (shutdown_requested.pub /\ pub_pc # "body") =>
                (bus' = bus \/ bus'[Len(bus')].op = "dispose") /\ pub_pc' # "body"
          /\ (shutdown_requested.pub /\ pub_pc = "body" /\ pub_pc' # "body") =>
                /\ pub_pc' = "sleep"
                /\ Len(bus') = Len(bus) + 1
          /\ (pub_pc = "sleep" /\ pub_pc' # "sleep") =>
                /\ pub_pc' = "loop_test"
                /\ samples_written' = samples_written + 1
          /\ (shutdown_requested.pub /\ pub_pc = "loop_test" /\ pub_pc' # "loop_test") =>
                pub_pc' = "dispose"
          /\ (shutdown_requested.sub /\ sub_pc # "dispatch") =>
                received' = received /\ sub_pc' # "dispatch"
          /\ (shutdown_requested.sub /\ sub_pc = "dispatch" /\ sub_pc' # "dispatch") =>
                sub_pc' \in {"loop_test", "exited"}
          /\ (shutdown_requested.sub /\ sub_pc = "loop_test" /\ sub_pc' # "loop_test") =>
                sub_pc' = "finish"]_vars
    /\ shutdown_requested.pub ~>
          (pub_pc = "done" /\ bus[Len(bus)].op = "dispose")

\* Both runs were cut short by shutdown: the publisher has returned after 1
\* of 2 samples, the subscriber has left its loop below its sample_count.
C12_Witness ==
    /\ shutdown_requested = [pub |-> TRUE, sub |-> TRUE]
    /\ sample_count.pub = 2
    /\ pub_pc = "done"
    /\ Cardinality(Writes) = 1
    /\ bus[2].op = "dispose"
    /\ sub_pc = "finish"
    /\ samples_read < sample_count.sub
    /\ Len(received) = 1

====
